---- MODULE Spec2Model ----
(***************************************************************************)
(* A model of two slices of Cirq:                                          *)
(*   - cirq/sim/act_on_args.py: ActOnArgs (axes, measurement log, measure) *)
(*     and the fallback strat_act_on_from_apply_decompose;                 *)
(*   - the deprecation wrappers of cirq/_compat.py as exercised by         *)
(*     cirq/_compat_test.py.                                               *)
(***************************************************************************)
EXTENDS Integers, Sequences, FiniteSets, TLC

(***************************************************************************)
(* Bounds of the model.                                                    *)
(***************************************************************************)
\* longest inversion mask handed to measure
MaxMask == 2
\* longest list of operations a decomposition returns
MaxOps == 2
\* cap on the number of _perform_measurement invocations in one run
MaxDraws == 2

\* longest deadline string handed to a deprecation wrapper
MaxDeadlineLen == 4
\* largest integer argument handed to a wrapped function
MaxArg == 2
\* cap on the number of uses of wrapped items in one run
MaxUses == 3

\* measured values: the two bit values and one qudit level above them
Values == {0, 1, 2}
\* measurement keys
Keys == {"a", "b"}

\* sequences over S of length exactly n / at most n
SeqsOfLen(S, n) == [1..n -> S]
SeqsUpTo(S, n) == UNION {SeqsOfLen(S, k) : k \in 0..n}
Range(s) == {s[i] : i \in 1..Len(s)}
Min(a, b) == IF a <= b THEN a ELSE b

VARIABLES
    axes,      \* ActOnArgs.axes
    log,       \* ActOnArgs.log_of_measurement_results: key -> list
    draws,     \* number of _perform_measurement invocations so far
    stack,     \* active frames of strat_act_on_from_apply_decompose
    exc,       \* exception propagating through the frames, or "none"
    ret,       \* outcome of the last top-level call
    call,      \* the last top-level call: what was called, and args.axes then
    lastm,     \* arguments and measured bits of the last measure call
    applied    \* protocols.act_on calls made by the call in progress

simVars == <<axes, log, draws, stack, exc, ret, call, lastm, applied>>

VARIABLES
    policy,    \* "allowed" inside assert_deprecated, "self_use" outside
    deco,      \* the last decoration: wrapper, deadline string and outcome
    used,      \* the last use of the wrapped item and what came of it
    nuses      \* number of uses so far

compatVars == <<policy, deco, used, nuses>>

(***************************************************************************)
(* ActOnArgs.measure                                                       *)
(***************************************************************************)
\* int ^ True on a non-negative int: toggles the lowest bit
XorTrue(bit) == IF bit % 2 = 0 THEN bit + 1 ELSE bit - 1

\* the correction without its bit < 2 guard: bit ^ mask
CorrectBitUnguarded(bit, mask) == IF mask THEN XorTrue(bit) ELSE bit

\* bit ^ (bit < 2 and mask)
CorrectBit(bit, mask) ==
    LET m == IF bit < 2 THEN mask ELSE FALSE
    IN  IF m THEN XorTrue(bit) ELSE bit

\* [bit ^ (bit < 2 and mask) for bit, mask in zip(bits, invert_mask)]
Corrected(bits, mask) ==
    [i \in 1..Min(Len(bits), Len(mask)) |-> CorrectBit(bits[i], mask[i])]

\* the membership test left out: every key passes as new
KeyNeverLogged(key, lg) == FALSE

\* key in self.log_of_measurement_results
KeyLogged(key, lg) == key \in DOMAIN lg

\* self.log_of_measurement_results[key] = corrected
Store(lg, key, corrected) ==
    [k \in (DOMAIN lg) \cup {key} |-> IF k = key THEN corrected ELSE lg[k]]

\* what _perform_measurement may return: one value per axis acted upon
PerformMeasurement(ax) == SeqsOfLen(Values, Len(ax))

\* the key checked before measuring: a rejected call measures nothing
DrawsAfterKeyCheckFirst(key, lg, d) == IF key \in DOMAIN lg THEN d ELSE d + 1

\* _perform_measurement is invoked first, whatever the key
DrawsAfter(key, lg, d) == d + 1

\* the whole of measure(key, invert_mask) for measured bits `bits`:
\* the log afterwards and the exception raised
MeasureResult(key, mask, bits, lg) ==
    IF KeyLogged(key, lg)
    THEN [log |-> lg, exc |-> "ValueError"]
    ELSE [log |-> Store(lg, key, Corrected(bits, mask)), exc |-> "none"]

\* the record kept of a measure call
MeasureCall(key, mask, bits, lg) ==
    [called |-> TRUE, key |-> key, mask |-> mask, bits |-> bits,
     fresh |-> key \notin DOMAIN lg]

NoMeasure ==
    [called |-> FALSE, key |-> "a", mask |-> <<>>, bits |-> <<>>,
     fresh |-> FALSE]

NoCall == [op |-> "none", decomposable |-> FALSE, nqubits |-> 0, axes |-> <<>>]

Idle == stack = <<>>

\* a top-level call of args.measure(key, invert_mask)
Measure ==
    /\ Idle
    /\ draws < MaxDraws
    /\ \E key \in Keys, mask \in SeqsUpTo(BOOLEAN, MaxMask),
          bits \in PerformMeasurement(axes) :
         LET r == MeasureResult(key, mask, bits, log)
         IN  /\ draws' = DrawsAfter(key, log, draws)
             /\ log' = r.log
             /\ ret' = IF r.exc = "none" THEN "None" ELSE r.exc
             /\ lastm' = MeasureCall(key, mask, bits, log)
    /\ call' = [NoCall EXCEPT !.op = "measure", !.axes = axes]
    /\ applied' = <<>>
    /\ UNCHANGED <<axes, stack, exc>>
    /\ UNCHANGED compatVars

(***************************************************************************)
(* Operations handed to protocols.act_on, and decomposable values          *)
(***************************************************************************)
\* an operation that acts on the tensor and succeeds
Gate(qs) == [kind |-> "gate", qubits |-> qs, key |-> "a", mask |-> <<>>, sub |-> <<>>]
\* an operation whose application raises
Fail(qs) == [kind |-> "fail", qubits |-> qs, key |-> "a", mask |-> <<>>, sub |-> <<>>]
\* a measurement: its _act_on_ calls args.measure(key, invert_mask)
Meas(qs, key, mask) ==
    [kind |-> "measure", qubits |-> qs, key |-> key, mask |-> mask, sub |-> <<>>]
\* an operation act_on can only apply through the decomposition fallback
Comp(qs, sub) ==
    [kind |-> "composite", qubits |-> qs, key |-> "a", mask |-> <<>>, sub |-> sub]

OpsPool ==
    { Gate(<<"q1", "q0">>),
      Fail(<<"q0">>),
      Meas(<<"q1">>, "a", <<TRUE>>),
      Comp(<<"q1", "q0">>, <<Gate(<<"q0">>), Meas(<<"q0", "q1">>, "b", <<FALSE, TRUE>>)>>),
      Comp(<<"q0", "q1">>,
           <<Comp(<<"q1">>, <<Gate(<<"q1">>), Fail(<<"q1">>), Gate(<<"q1">>)>>),
             Gate(<<"q0">>)>>) }

\* what _try_decompose_into_operations_and_qubits(val) returns:
\* operations is None (decomposable = FALSE) or a list, and the qubits
Decomposed(ops, qs) == [decomposable |-> TRUE, operations |-> ops, qubits |-> qs]
NotDecomposable == [decomposable |-> FALSE, operations |-> <<>>, qubits |-> <<>>]

Vals ==
    {NotDecomposable}
    \cup {Decomposed(ops, qs) : ops \in SeqsUpTo(OpsPool, MaxOps),
                                qs \in {<<"q0", "q1">>, <<"q1", "q0">>}}
    \* a qubit list that is not as long as args.axes
    \cup {Decomposed(<<Gate(<<"q1">>)>>, qs) : qs \in {<<"q1">>, <<"q0", "q1", "q2">>}}
    \* an operation on a qubit the decomposition's qubit list does not hold
    \cup {Decomposed(<<Gate(<<"q1">>), Gate(<<"q2">>)>>, <<"q0", "q1">>)}

(***************************************************************************)
(* strat_act_on_from_apply_decompose                                       *)
(***************************************************************************)
\* {q: args.axes[i] for i, q in enumerate(qubits)}: a later position wins
QubitMap(qubits, ax) ==
    [q \in Range(qubits) |->
        ax[CHOOSE i \in 1..Len(qubits) :
              /\ qubits[i] = q
              /\ \A j \in 1..Len(qubits) : qubits[j] = q => j <= i]]

\* assert len(qubits) == len(args.axes)
QubitCountOk(qubits, ax) == Len(qubits) = Len(ax)

\* qubit_map[q] is defined for every q of operation.qubits
Mappable(qmap, op) == \A i \in 1..Len(op.qubits) : op.qubits[i] \in DOMAIN qmap

\* the operation's qubits walked in the wrong order
SubAxesReversed(qmap, op) ==
    [i \in 1..Len(op.qubits) |-> qmap[op.qubits[Len(op.qubits) + 1 - i]]]

\* tuple(qubit_map[q] for q in operation.qubits)
SubAxes(qmap, op) == [i \in 1..Len(op.qubits) |-> qmap[op.qubits[i]]]

\* the locals of one activation; i is the position of the for loop
Frame(ops, qubits, ax, path) ==
    [operations |-> ops, qubits |-> qubits, qubit_map |-> QubitMap(qubits, ax),
     old_axes |-> ax, i |-> 1, path |-> path]

\* a value without a decomposition treated as an error
EntryOutcomeRaising(val, ax) ==
    IF ~val.decomposable THEN "TypeError"
    ELSE IF ~QubitCountOk(val.qubits, ax) THEN "AssertionError"
    ELSE "running"

\* how the function leaves its first four lines
EntryOutcome(val, ax) ==
    IF ~val.decomposable THEN "NotImplemented"
    ELSE IF ~QubitCountOk(val.qubits, ax) THEN "AssertionError"
    ELSE "running"

\* the restore written after the loop instead of in a finally clause
RestoredOnSuccessOnly(frame, raising) == IF raising THEN axes ELSE frame.old_axes

\* finally: args.axes = old_axes, on the normal and on the raising path
RestoredAxes(frame, raising) == frame.old_axes

\* the for loop goes on to the next operation only after act_on returned
NextPosition(i) == i + 1

Top == stack[Len(stack)]

\* a top-level call of strat_act_on_from_apply_decompose(val, args)
StratEnter ==
    /\ Idle
    /\ \E val \in Vals :
          /\ call' = [op |-> "decompose", decomposable |-> val.decomposable,
                      nqubits |-> Len(val.qubits), axes |-> axes]
          /\ ret' = EntryOutcome(val, axes)
          /\ stack' = IF EntryOutcome(val, axes) = "running"
                      THEN <<Frame(val.operations, val.qubits, axes, <<>>)>>
                      ELSE stack
    /\ lastm' = NoMeasure
    /\ applied' = <<>>
    /\ UNCHANGED <<axes, log, draws, exc>>
    /\ UNCHANGED compatVars

\* one turn of the for loop: set args.axes, then protocols.act_on(operation, args)
StratApply ==
    /\ ~Idle /\ exc = "none" /\ Top.i <= Len(Top.operations)
    /\ LET op == Top.operations[Top.i]
           path == Append(Top.path, Top.i)
           advance == [stack EXCEPT ![Len(stack)].i = NextPosition(@)]
       IN  IF ~Mappable(Top.qubit_map, op)
           THEN /\ exc' = "KeyError"
                /\ UNCHANGED <<axes, log, draws, stack, lastm, applied>>
           ELSE
             LET ax == SubAxes(Top.qubit_map, op) IN
             /\ axes' = ax
             /\ applied' = Append(applied, [path |-> path, axes |-> ax])
             /\ CASE op.kind = "gate" ->
                      /\ stack' = advance
                      /\ UNCHANGED <<log, draws, exc, lastm>>
                  [] op.kind = "fail" ->
                      /\ exc' = "TypeError"
                      /\ UNCHANGED <<log, draws, stack, lastm>>
                  [] op.kind = "measure" ->
                      /\ draws < MaxDraws
                      /\ \E bits \in PerformMeasurement(ax) :
                           LET r == MeasureResult(op.key, op.mask, bits, log)
                           IN  /\ draws' = DrawsAfter(op.key, log, draws)
                               /\ log' = r.log
                               /\ exc' = r.exc
                               /\ lastm' = MeasureCall(op.key, op.mask, bits, log)
                               /\ stack' = IF r.exc = "none" THEN advance ELSE stack
                  [] op.kind = "composite" ->
                      \* act_on reaches the fallback again; for an operation the
                      \* decomposition's qubits are operation.qubits
                      /\ stack' = Append(stack, Frame(op.sub, op.qubits, ax, path))
                      /\ UNCHANGED <<log, draws, exc, lastm>>
    /\ UNCHANGED <<ret, call>>
    /\ UNCHANGED compatVars

\* the loop ran to its end: finally, then return True; a nested call returns
\* into its caller's act_on, whose loop moves on
StratReturn ==
    /\ ~Idle /\ exc = "none" /\ Top.i > Len(Top.operations)
    /\ axes' = RestoredAxes(Top, FALSE)
    /\ stack' = IF Len(stack) = 1 THEN <<>>
                ELSE [SubSeq(stack, 1, Len(stack) - 1)
                         EXCEPT ![Len(stack) - 1].i = NextPosition(@)]
    /\ ret' = IF Len(stack) = 1 THEN "True" ELSE ret
    /\ applied' = IF Len(stack) = 1 THEN <<>> ELSE applied
    /\ UNCHANGED <<log, draws, exc, call, lastm>>
    /\ UNCHANGED compatVars

\* an exception leaves the try block: finally, then it propagates to the caller
StratRaise ==
    /\ ~Idle /\ exc # "none"
    /\ axes' = RestoredAxes(Top, TRUE)
    /\ stack' = SubSeq(stack, 1, Len(stack) - 1)
    /\ ret' = IF Len(stack) = 1 THEN exc ELSE ret
    /\ exc' = IF Len(stack) = 1 THEN "none" ELSE exc
    /\ applied' = IF Len(stack) = 1 THEN <<>> ELSE applied
    /\ UNCHANGED <<log, draws, call, lastm>>
    /\ UNCHANGED compatVars

SimInit(axesChoices) ==
    /\ axes \in axesChoices
    /\ log = <<>>
    /\ draws = 0
    /\ stack = <<>>
    /\ exc = "none"
    /\ ret = "none"
    /\ call = NoCall
    /\ lastm = NoMeasure
    /\ applied = <<>>

(***************************************************************************)
(* The deprecation wrappers, as cirq/_compat_test.py uses them             *)
(***************************************************************************)
Wrappers == {"deprecated", "deprecated_parameter", "deprecated_class", "deprecate_attributes"}

\* the characters deadline strings are made of: v, digits, the dot, a letter
DeadlineChars == {"v", "1", "2", ".", "x"}
Digits == {"1", "2"}
DeadlineStrings == SeqsUpTo(DeadlineChars, MaxDeadlineLen)

\* a pattern that lets the major or the minor number be empty
MatchesDeadlineLax(d) ==
    /\ Len(d) >= 2
    /\ d[1] = "v"
    /\ \E dot \in 2..Len(d) :
          /\ d[dot] = "."
          /\ \A i \in 2..(dot - 1) : d[i] \in Digits
          /\ \A i \in (dot + 1)..Len(d) : d[i] \in Digits

\* the deadline has the form vMAJOR.MINOR: v, digits, a dot, digits
MatchesDeadline(d) ==
    /\ Len(d) >= 4
    /\ d[1] = "v"
    /\ \E dot \in 3..(Len(d) - 1) :
          /\ d[dot] = "."
          /\ \A i \in 2..(dot - 1) : d[i] \in Digits
          /\ \A i \in (dot + 1)..Len(d) : d[i] \in Digits

\* the name the diagnostic gives the deprecated item
ItemName(wrapper) ==
    CASE wrapper = "deprecated" -> "old_func"
      [] wrapper = "deprecated_parameter" -> "double_count parameter of test_func"
      [] wrapper = "deprecated_class" -> "foo"
      [] wrapper = "deprecate_attributes" -> "foo"

\* the fix text given to the wrapper
ItemFix(wrapper) ==
    CASE wrapper = "deprecated" -> "Roll some dice."
      [] wrapper = "deprecated_parameter" -> "Double it yourself."
      [] wrapper = "deprecated_class" -> "theFix"
      [] wrapper = "deprecate_attributes" -> "use bar instead"

\* def new_func(a, b): return a + b
NewFunc(a, b) == a + b

\* match=lambda args, kwargs: 'double_count' in kwargs
Match(kwargs) == kwargs.name = "double_count"

\* the rewrite passing the old value on undoubled
RewriteUndoubled(kwargs) == [name |-> "new_count", value |-> kwargs.value]

\* rewrite=lambda args, kwargs: (args, {'new_count': kwargs['double_count'] * 2})
Rewrite(kwargs) == [name |-> "new_count", value |-> kwargs.value * 2]

\* def f(new_count): return new_count
F(kwargs) == kwargs.value

\* my_module.foo = 'foo'; my_module.bar = 'bar'
ModuleAttribute(name) == name

\* the arguments of a use that goes through the deprecated surface
DeprecatedArgs(wrapper) ==
    CASE wrapper = "deprecated" ->
            {[name |-> "args", value |-> a, other |-> b] : a, b \in 0..MaxArg}
      [] wrapper = "deprecated_parameter" ->
            {[name |-> "double_count", value |-> n, other |-> 0] : n \in 0..MaxArg}
      [] wrapper = "deprecated_class" ->
            {[name |-> "a", value |-> n, other |-> 0] : n \in 0..MaxArg}
      [] wrapper = "deprecate_attributes" ->
            {[name |-> "foo", value |-> 0, other |-> 0]}

\* the arguments of a use that does not: a call without the deprecated
\* parameter, a read of an attribute that is not deprecated
PlainArgs(wrapper) ==
    CASE wrapper = "deprecated_parameter" ->
            {[name |-> "new_count", value |-> n, other |-> 0] : n \in 0..MaxArg}
      [] wrapper = "deprecate_attributes" ->
            {[name |-> "bar", value |-> 0, other |-> 0]}
      [] OTHER -> {}

\* what the wrapped function, class or module yields for the arguments
Underlying(wrapper, args) ==
    CASE wrapper = "deprecated" -> <<NewFunc(args.value, args.other)>>
      [] wrapper = "deprecated_parameter" ->
            <<F(IF Match(args) THEN Rewrite(args) ELSE args)>>
      [] wrapper = "deprecated_class" -> <<args.value>>
      [] wrapper = "deprecate_attributes" -> <<ModuleAttribute(args.name)>>

\* the diagnostic of a deprecated use
Diagnostic(wrapper, deadline) ==
    [name |-> ItemName(wrapper), removed_in |-> deadline, fix |-> ItemFix(wrapper)]

\* every deprecated use warns, whatever the policy
WarnAlways(pol) == "warn"

\* warn while deprecation is allowed, fail under the self-use policy
WarnOrError(pol) == IF pol = "allowed" THEN "warn" ELSE "error"

\* the log records of a use that does not touch the deprecated surface
PlainRecords(wrapper, deadline) == <<>>

NoDeco == [wrapper |-> "none", deadline |-> <<>>, outcome |-> "none"]
NoUse ==
    [how |-> "none", args |-> [name |-> "none", value |-> 0, other |-> 0],
     policy |-> "none", outcome |-> "none", records |-> <<>>, result |-> <<>>,
     before |-> "none"]

\* applying a wrapper with a deadline: the deadline is validated at once;
\* a run follows one decoration and the uses of the item it wrapped
Decorate ==
    /\ deco = NoDeco
    /\ \E wrapper \in Wrappers, deadline \in DeadlineStrings :
          deco' = [wrapper |-> wrapper, deadline |-> deadline,
                   outcome |-> IF MatchesDeadline(deadline)
                               THEN "ok" ELSE "AssertionError"]
    /\ used' = NoUse
    /\ UNCHANGED <<policy, nuses>>
    /\ UNCHANGED simVars

\* entering and leaving the scope of cirq.testing.assert_deprecated
EnterAssertDeprecated ==
    /\ policy = "self_use"
    /\ policy' = "allowed"
    /\ UNCHANGED <<deco, used, nuses>>
    /\ UNCHANGED simVars

ExitAssertDeprecated ==
    /\ policy = "allowed"
    /\ policy' = "self_use"
    /\ UNCHANGED <<deco, used, nuses>>
    /\ UNCHANGED simVars

\* calling the deprecated function, constructing the deprecated class, reading
\* the deprecated attribute, passing the deprecated parameter
UseDeprecated ==
    /\ deco.outcome = "ok"
    /\ nuses < MaxUses
    /\ \E args \in DeprecatedArgs(deco.wrapper) :
          used' = IF WarnOrError(policy) = "warn"
                  THEN [how |-> "deprecated", args |-> args, policy |-> policy,
                        outcome |-> "returned",
                        records |-> <<Diagnostic(deco.wrapper, deco.deadline)>>,
                        result |-> Underlying(deco.wrapper, args),
                        before |-> used.outcome]
                  ELSE [how |-> "deprecated", args |-> args, policy |-> policy,
                        outcome |-> "ValueError",
                        records |-> <<>>, result |-> <<>>,
                        before |-> used.outcome]
    /\ nuses' = nuses + 1
    /\ UNCHANGED <<policy, deco>>
    /\ UNCHANGED simVars

\* a use of the wrapped item that does not touch its deprecated surface
UsePlain ==
    /\ deco.outcome = "ok"
    /\ nuses < MaxUses
    /\ \E args \in PlainArgs(deco.wrapper) :
          used' = [how |-> "plain", args |-> args, policy |-> policy,
                   outcome |-> "returned",
                   records |-> PlainRecords(deco.wrapper, deco.deadline),
                   result |-> Underlying(deco.wrapper, args),
                   before |-> used.outcome]
    /\ nuses' = nuses + 1
    /\ UNCHANGED <<policy, deco>>
    /\ UNCHANGED simVars

CompatInit ==
    /\ policy = "self_use"
    /\ deco = NoDeco
    /\ used = NoUse
    /\ nuses = 0

vars == <<simVars, compatVars>>

(***************************************************************************)
(* Specifications                                                          *)
(***************************************************************************)
\* measure called repeatedly on one ActOnArgs
MeasureInit == SimInit({<<1>>, <<0, 1>>, <<2, 0>>}) /\ CompatInit

MeasureNext == Measure

MeasureSpec == MeasureInit /\ [][MeasureNext]_vars

\* the decomposition fallback called repeatedly on one ActOnArgs
DecomposeInit == SimInit({<<0, 1>>, <<2, 0>>}) /\ CompatInit

DecomposeNext ==
    \/ StratEnter
    \/ StratApply
    \/ StratReturn
    \/ StratRaise

DecomposeSpec == DecomposeInit /\ [][DecomposeNext]_vars

\* items wrapped and used under the two policies
CompatSpecInit == SimInit({<<0, 1>>}) /\ CompatInit

CompatNext ==
    \/ Decorate
    \/ EnterAssertDeprecated
    \/ ExitAssertDeprecated
    \/ UseDeprecated
    \/ UsePlain

CompatSpec == CompatSpecInit /\ [][CompatNext]_vars

(***************************************************************************)
(* Properties of ActOnArgs.measure                                         *)
(***************************************************************************)
\* C1: a measure call whose key is already in the log raises ValueError and
\* leaves the log exactly as it was; hence every key keeps, through any
\* sequence of measure calls, the value its first call wrote.
C1_DuplicateKeyRejected ==
    [][\A k \in DOMAIN log :
          /\ k \in DOMAIN log'
          /\ log'[k] = log[k]
          /\ (lastm'.called /\ lastm'.key = k)
                => (ret' = "ValueError" /\ log' = log)]_vars

C1_Witness ==
    /\ lastm.called /\ ~lastm.fresh
    /\ ret = "ValueError"
    /\ lastm.key \in DOMAIN log
    /\ Corrected(lastm.bits, lastm.mask) # log[lastm.key]

\* C3 as stated: with a fresh key and a mask as long as the measured list,
\* the stored list is as long, and a position differs from the measured
\* value exactly when its mask entry is set, whatever the measured value.
C3_FlipsEveryMaskedValue ==
    (lastm.called /\ lastm.fresh /\ Len(lastm.mask) = Len(lastm.bits))
        => /\ Len(log[lastm.key]) = Len(lastm.bits)
           /\ \A i \in 1..Len(lastm.bits) :
                 (log[lastm.key][i] # lastm.bits[i]) <=> lastm.mask[i]

\* C3 amended: with a fresh key and a mask as long as the measured list, the
\* stored list is as long; a measured 0 or 1 is stored inverted where the
\* mask is set and as measured where it is not; a measured value of 2 or
\* more is stored as measured whatever the mask says.
C3_FlipsMaskedBits ==
    (lastm.called /\ lastm.fresh /\ Len(lastm.mask) = Len(lastm.bits))
        => /\ Len(log[lastm.key]) = Len(lastm.bits)
           /\ \A i \in 1..Len(lastm.bits) :
                 log[lastm.key][i] =
                    IF lastm.bits[i] \in {0, 1} /\ lastm.mask[i]
                    THEN 1 - lastm.bits[i]
                    ELSE lastm.bits[i]

C3_Witness ==
    /\ lastm.called /\ lastm.fresh
    /\ Len(lastm.mask) = 2 /\ Len(lastm.bits) = 2
    /\ \E i, j \in 1..2 :
          /\ lastm.mask[i] /\ lastm.bits[i] = 2
          /\ lastm.mask[j] /\ lastm.bits[j] = 1 /\ log[lastm.key][j] = 0

\* C4: a measure call whose mask is not as long as the measured list fails,
\* and records nothing under the key.
C4_MismatchRejected ==
    (lastm.called /\ Len(lastm.mask) # Len(lastm.bits))
        => /\ ret \notin {"None"}
           /\ (lastm.fresh => lastm.key \notin DOMAIN log)

\* C10: every measure call invokes _perform_measurement exactly once, also
\* the call rejected for its key, which leaves the log unchanged; measure
\* never changes args.axes, and a successful call changes the log at its
\* own key only.
C10_MeasuresBeforeKeyCheck ==
    [][/\ draws' = draws + 1
       /\ axes' = axes
       /\ lastm'.called
       /\ (lastm'.key \in DOMAIN log) <=> (ret' = "ValueError")
       /\ ret' = "ValueError" => log' = log
       /\ ret' # "ValueError" =>
             /\ ret' = "None"
             /\ DOMAIN log' = DOMAIN log \cup {lastm'.key}
             /\ \A k \in DOMAIN log : log'[k] = log[k]]_vars

C10_Witness ==
    /\ ret = "ValueError"
    /\ lastm.called /\ ~lastm.fresh
    /\ draws = 2
    /\ Cardinality(DOMAIN log) = 1
(***************************************************************************)
(* Properties of strat_act_on_from_apply_decompose                         *)
(***************************************************************************)
\* the position of qubit q in a qubit list
PositionOf(q, qubits) == CHOOSE i \in 1..Len(qubits) : qubits[i] = q

\* the axes of an operation, given its decomposition's qubit list and the
\* axes args held when that decomposition was entered
AxesOf(op, qubits, entry) ==
    [j \in 1..Len(op.qubits) |-> entry[PositionOf(op.qubits[j], qubits)]]

\* args.axes on entry of the activation at a level of the stack: for the
\* outermost the axes of the top-level call, for a nested one the axes of
\* the operation its caller is applying
RECURSIVE EntryAxes(_)
EntryAxes(level) ==
    IF level = 1 THEN call.axes
    ELSE LET p == stack[level - 1]
         IN  AxesOf(p.operations[p.i], p.qubits, EntryAxes(level - 1))

\* C2: whenever an activation of the fallback ends, by returning or by an
\* exception leaving it, args.axes is again what it was when that activation
\* was entered, for nested activations too; and the exception goes on to
\* the caller.
C2_AxesRestored ==
    [][Len(stack') < Len(stack) =>
          /\ axes' = EntryAxes(Len(stack))
          /\ exc # "none" =>
                IF Len(stack) = 1 THEN ret' = exc ELSE exc' = exc]_vars

C2_Witness ==
    /\ Len(stack) = 1
    /\ exc = "TypeError"
    /\ Top.operations[Top.i].kind = "composite"
    /\ axes = EntryAxes(2)
    /\ axes # call.axes

\* C5: for a value without a decomposition the fallback returns
\* NotImplemented, raises nothing, applies nothing and leaves args.axes and
\* the measurement log as they were; it returns True only for a value with
\* a decomposition, after every operation of it was applied and none raised.
C5_NotImplementedOrTrue ==
    [][/\ (Idle /\ call'.op = "decompose" /\ ~call'.decomposable) =>
             /\ ret' = "NotImplemented"
             /\ stack' = <<>> /\ exc' = "none" /\ applied' = <<>>
             /\ axes' = axes /\ log' = log /\ draws' = draws
       /\ (~Idle /\ ret' = "True") =>
             /\ call.decomposable
             /\ exc = "none" /\ exc' = "none"
             /\ Len(stack) = 1
             /\ {applied[k].path[1] : k \in 1..Len(applied)}
                   = 1..Len(stack[1].operations)]_vars

C5_Witness ==
    /\ Idle
    /\ ret = "NotImplemented"
    /\ call.op = "decompose" /\ ~call.decomposable
    /\ DOMAIN log # {}

\* the operations of a decomposition, nested ones included, in the order a
\* run without failure applies them; each is named by its path of positions
RECURSIVE Preorder(_, _, _)
Preorder(ops, prefix, i) ==
    IF i > Len(ops) THEN <<>>
    ELSE <<Append(prefix, i)>>
         \o (IF ops[i].kind = "composite"
             THEN Preorder(ops[i].sub, Append(prefix, i), 1) ELSE <<>>)
         \o Preorder(ops, prefix, i + 1)

\* the axes expected while the operation at a path is applied
RECURSIVE ExpectedAxes(_, _, _, _)
ExpectedAxes(ops, qubits, entry, path) ==
    LET op == ops[Head(path)]
        ax == AxesOf(op, qubits, entry)
    IN  IF Len(path) = 1 THEN ax
        ELSE ExpectedAxes(op.sub, op.qubits, ax, Tail(path))

C9_Applied ==
    ~Idle =>
       /\ Len(stack[1].qubits) = Len(call.axes)
       /\ Len(applied) <= Len(Preorder(stack[1].operations, <<>>, 1))
       /\ \A k \in 1..Len(applied) :
             /\ applied[k].path = Preorder(stack[1].operations, <<>>, 1)[k]
             /\ applied[k].axes =
                   ExpectedAxes(stack[1].operations, stack[1].qubits,
                                call.axes, applied[k].path)

C9_Step ==
    /\ Len(applied') > Len(applied) =>
          /\ exc = "none"
          /\ Len(applied') = Len(applied) + 1
          /\ axes' = applied'[Len(applied')].axes
    /\ (Idle /\ call'.op = "decompose" /\ call'.decomposable
             /\ call'.nqubits # Len(axes)) =>
          /\ ret' = "AssertionError"
          /\ stack' = <<>> /\ applied' = <<>> /\ axes' = axes

\* C9: the operations of the decomposition are applied one at a time in the
\* order returned; while one is applied args.axes holds, for each of its
\* qubits in order, the entry-time axis at that qubit's position in the
\* decomposition's qubit list; once one raises no later one is applied; a
\* qubit list not as long as the entry-time axes raises AssertionError
\* before anything is applied.
C9_AppliedInOrderOnMappedAxes == []C9_Applied /\ [][C9_Step]_vars

C9_Witness ==
    /\ ~Idle
    /\ Len(applied) >= 3
    /\ \E k \in 1..Len(applied) : Len(applied[k].path) >= 2
    /\ \E k \in 1..Len(applied) : applied[k].axes = <<0, 2>>
    /\ axes # call.axes
(***************************************************************************)
(* Properties of the deprecation wrappers                                  *)
(***************************************************************************)
\* reading a deadline string left to right: v, one or more digits, a dot,
\* one or more digits, and nothing else
RECURSIVE DeadlineRun(_, _, _)
DeadlineRun(d, i, at) ==
    IF i > Len(d) THEN at = "minor"
    ELSE CASE at = "start" -> d[i] = "v" /\ DeadlineRun(d, i + 1, "v")
           [] at = "v" -> d[i] \in Digits /\ DeadlineRun(d, i + 1, "major")
           [] at = "major" ->
                 \/ d[i] \in Digits /\ DeadlineRun(d, i + 1, "major")
                 \/ d[i] = "." /\ DeadlineRun(d, i + 1, "dot")
           [] at = "dot" -> d[i] \in Digits /\ DeadlineRun(d, i + 1, "minor")
           [] at = "minor" -> d[i] \in Digits /\ DeadlineRun(d, i + 1, "minor")

\* C6: for each of the four wrappers, decoration succeeds when the deadline
\* has the form vMAJOR.MINOR and fails with AssertionError for every other
\* deadline string, at decoration time: no use of the item precedes the
\* failure and none can follow it.
C6_DeadlineValidatedAtDecoration ==
    deco.outcome # "none" =>
       /\ deco.wrapper \in Wrappers
       /\ (deco.outcome = "ok") <=> DeadlineRun(deco.deadline, 1, "start")
       /\ deco.outcome # "ok" =>
             /\ deco.outcome = "AssertionError"
             /\ used = NoUse /\ nuses = 0

C6_Witness ==
    /\ deco.wrapper = "deprecate_attributes"
    /\ deco.deadline = <<"v", "1", ".", "x">>
    /\ deco.outcome = "AssertionError"
    /\ policy = "allowed"

\* C7: a use of a deprecated item is decided by the policy in force at the
\* use: while deprecation is allowed it emits one diagnostic holding the
\* item's name, its deadline and its fix text and yields the underlying
\* result; under the self-use policy it raises ValueError and emits nothing.
C7_PolicyDecidesUse ==
    [][(nuses' = nuses + 1 /\ used'.how = "deprecated") =>
          IF policy = "allowed"
          THEN /\ used'.outcome = "returned"
               /\ used'.records =
                     <<[name |-> ItemName(deco.wrapper),
                        removed_in |-> deco.deadline,
                        fix |-> ItemFix(deco.wrapper)]>>
               /\ used'.result # <<>>
               /\ deco.wrapper = "deprecated" =>
                     used'.result = <<used'.args.value + used'.args.other>>
          ELSE /\ used'.outcome = "ValueError"
               /\ used'.records = <<>>
               /\ used'.result = <<>>]_vars

C7_Witness ==
    /\ used.how = "deprecated"
    /\ used.outcome = "ValueError"
    /\ used.before = "returned"
    /\ policy = "self_use"
    /\ deco.wrapper = "deprecated_class"

====
